---- MODULE Spec2Model ----
(***************************************************************************)
(* Model of the renderer's App component (job start + backend log monitor) *)
(* of clip-flow-ai.  The component keeps React state (logs, error,         *)
(* isProcessing, activeStep, activeTab), and its mount effect keeps three  *)
(* closure variables (ws, reconnectTimer, healthCheckTimer) that drive the *)
(* health-probe / WebSocket / reconnect cycle.  Every handler of the       *)
(* component is one action; the environment (backend, network, user,       *)
(* timers) chooses which handler runs next and with which input.           *)
(*                                                                         *)
(* The SettingsView component (load and save of the settings) is modelled *)
(* next to it, with its own variables and its own specification.           *)
(*                                                                         *)
(* A text is a sequence of fragments (strings); a template string is the   *)
(* concatenation of its fragments, String.includes is Includes below.      *)
(***************************************************************************)
EXTENDS Integers, Sequences, FiniteSets, TLC

\* ------------------------------------------------------------------ bounds
MaxLog == 2        \* longest log the model follows
MaxPosts == 2      \* most POST /start-job requests awaiting their response
MaxFail == 2       \* most consecutive failed probes of one probing episode
MaxSock == 2       \* WebSocket objects the model can tell apart at one time
MaxSaves == 2      \* most POST /settings requests awaiting their response
MaxProcs == 2      \* child processes the model can tell apart in one run
MaxConsole == 5    \* longest console output of the main process the model follows

\* ------------------------------------------------------- program constants
COMPLETE == 5                   \* setActiveStep(5) // Complete

Null == <<>>                    \* null / undefined

\* --------------------------------------------------------------- the texts
\* Fragments that textually contain a keyword without being equal to it.
Superstrings ==
    { <<"Transcription started", "Transcription">>,
      <<"PIPELINE ERROR", "ERROR">>,
      <<"ERROR: ", "ERROR">> }

\* msg.includes(kw)
Includes(msg, kw) ==
    \E i \in DOMAIN msg : msg[i] = kw \/ <<msg[i], kw>> \in Superstrings

\* The lines the backend is taken to write to the log stream.
Lines ==
    { <<"Initiating download">>,
      <<"Transcription started">>,
      <<"found in history">>,
      <<"Successfully processed">>,
      <<"PIPELINE ERROR">>,
      <<"Compositing", "Curating">> }

\* Lines on which several of the ifs of ws.onmessage match.
MarkedLines ==
    { <<"Packaging", "Successfully processed">>,
      <<"Successfully processed", "ERROR">>,
      <<"Loading cached transcript", "No clips found">>,
      <<"Indexing", "found in history">>,
      <<"Story Mode finished">> }

\* --------------------------------------------------- the stepper's parsing
\* The condition of the k-th if of ws.onmessage, in source order: the five
\* stage ifs (0..4), the success if (5) and the error if (6).
RuleMatches(k, msg) ==
    CASE k = 0 -> Includes(msg, "Initiating download") \/ Includes(msg, "found in history")
      [] k = 1 -> Includes(msg, "Transcription") \/ Includes(msg, "Loading cached transcript")
      [] k = 2 -> Includes(msg, "Curating") \/ Includes(msg, "Curation")
      [] k = 3 -> Includes(msg, "Retrieval") \/ Includes(msg, "Indexing")
      [] k = 4 -> Includes(msg, "Compositing") \/ Includes(msg, "Packaging")
      [] k = 5 -> Includes(msg, "Successfully processed") \/ Includes(msg, "Story Mode finished")
      [] k = 6 -> \/ Includes(msg, "ERROR")
                  \/ Includes(msg, "PIPELINE ERROR")
                  \/ Includes(msg, "No clips found")

\* The ifs of ws.onmessage whose condition holds of msg.
Matching(msg) == {k \in 0..6 : RuleMatches(k, msg)}

\* One `if (...) setActiveStep(k)` of ws.onmessage: the step after it.
StepIf(cond, k, cur) == IF cond THEN k ELSE cur

\* Mutant: the stage ifs are chained with else, so the first match decides.
StepAfterFirstMatch(msg, cur) ==
    IF Includes(msg, "Initiating download") \/ Includes(msg, "found in history") THEN 0
    ELSE IF Includes(msg, "Transcription") \/ Includes(msg, "Loading cached transcript") THEN 1
    ELSE IF Includes(msg, "Curating") \/ Includes(msg, "Curation") THEN 2
    ELSE IF Includes(msg, "Retrieval") \/ Includes(msg, "Indexing") THEN 3
    ELSE IF Includes(msg, "Compositing") \/ Includes(msg, "Packaging") THEN 4
    ELSE cur

\* The seven ifs of ws.onmessage in source order, applied to the step `cur`;
\* every setActiveStep is a plain assignment, so a later if overrides an
\* earlier one.
StepAfter(msg, cur) ==
    LET s0 == StepIf(Includes(msg, "Initiating download")
                       \/ Includes(msg, "found in history"), 0, cur)
        s1 == StepIf(Includes(msg, "Transcription")
                       \/ Includes(msg, "Loading cached transcript"), 1, s0)
        s2 == StepIf(Includes(msg, "Curating") \/ Includes(msg, "Curation"), 2, s1)
        s3 == StepIf(Includes(msg, "Retrieval") \/ Includes(msg, "Indexing"), 3, s2)
        s4 == StepIf(Includes(msg, "Compositing") \/ Includes(msg, "Packaging"), 4, s3)
    IN  s4

\* The success marker of ws.onmessage.
IsSuccessLine(msg) ==
    Includes(msg, "Successfully processed") \/ Includes(msg, "Story Mode finished")

\* The error marker of ws.onmessage.
IsErrorLine(msg) ==
    \/ Includes(msg, "ERROR")
    \/ Includes(msg, "PIPELINE ERROR")
    \/ Includes(msg, "No clips found")

\* A line that carries one of the stage keywords.
IsStageLine(msg) == \E c \in 0..COMPLETE : StepAfter(msg, c) # c

\* ----------------------------------------------------------------- state
VARIABLES
    activeTab,         \* useState('Viral Generator')
    logs,              \* useState<string[]>([])
    error,             \* useState<string | null>(null)
    isProcessing,      \* useState(false)
    activeStep,        \* useState(0)
    config,            \* useState({ mode: 'viral', url: '', ... })
    ws,                \* let ws: the socket slot the effect's variable holds, 0 = undefined
    sockets,           \* readyState of every WebSocket object, by slot
    reconnectTimer,    \* pending setTimeout(waitForBackend, 3000) timeouts
    healthCheckTimer,  \* pending setTimeout(waitForBackend, 1000) timeouts
    health,            \* GET /health requests awaiting their answer
    posts,             \* POST /start-job payloads awaiting their answer
    mounted,           \* FALSE once the effect's cleanup has run
    \* history variables, read by the properties only
    epFails,           \* failed probes of the current probing episode
    epRetries,         \* retry timeouts fired in the current probing episode
    terminalSeen,      \* a marker line arrived since the last accepted start
    unresolved,        \* a start was accepted; no failed submission, no marker line since
    jobPosts,          \* POSTs sent since the job last resolved
    jobClears,         \* log clears since the job last resolved
    lastCall,          \* how handleStartJob ended, if it was the last handler to run
    started,           \* a start has been accepted since the component was mounted
    \* SettingsView
    settingsMounted,   \* the SettingsView component is mounted
    settingsConfig,    \* its useState<ConfigState | null>(null), named config there
    loading,           \* useState(true)
    saving,            \* useState(false)
    message,           \* useState<{ type, text } | null>(null)
    gets,              \* GET /settings requests awaiting their response
    saves,             \* bodies of the POST /settings requests awaiting their response
    fetches,           \* GET /settings requests sent since the mount
    lastSave,          \* how handleSave ended, if it was the last handler to run
    \* electron/main.ts
    appState,          \* the app: "starting", "ready", "quitting" (quit requested), "quit"
    platform,          \* process.platform
    windows,           \* BrowserWindow.getAllWindows().length
    pythonProcess,     \* let pythonProcess: ChildProcess | null (0 is null)
    procs,             \* the child processes: "none", "running", "exited", "killed"
    console,           \* what console.log / console.error have written
    spawns,            \* calls of spawn in this run
    kills              \* calls of ChildProcess.kill in this run

reactVars == <<activeTab, logs, error, isProcessing, activeStep, config>>
monitorVars == <<ws, sockets, reconnectTimer, healthCheckTimer, health>>
progVars == <<activeTab, logs, error, isProcessing, activeStep, config,
              ws, sockets, reconnectTimer, healthCheckTimer, health, posts, mounted>>
vars == <<activeTab, logs, error, isProcessing, activeStep, config,
          ws, sockets, reconnectTimer, healthCheckTimer, health, posts, mounted,
          epFails, epRetries, terminalSeen, unresolved, jobPosts, jobClears, lastCall,
          started,
          settingsMounted, settingsConfig, loading, saving, message, gets, saves, fetches,
          lastSave,
          appState, platform, windows, pythonProcess, procs, console, spawns, kills>>
appVars == <<activeTab, logs, error, isProcessing, activeStep, config,
             ws, sockets, reconnectTimer, healthCheckTimer, health, posts, mounted,
             epFails, epRetries, terminalSeen, unresolved, jobPosts, jobClears, lastCall,
             started>>
settingsVars == <<settingsMounted, settingsConfig, loading, saving, message, gets, saves,
                  fetches, lastSave>>
electronVars == <<appState, platform, windows, pythonProcess, procs, console, spawns, kills>>

Tabs == {"Viral Generator", "Story Mode"}

\* The values the url field is given; the fields of config that no handler
\* of the model reads are left out of the record.
Urls == {"", "https://youtube.com/test"}
Slots == 1..MaxSock

\* SettingsView before it is mounted: the initial values of its useState
\* calls, and nothing sent.
SettingsUnmounted ==
    /\ settingsMounted = FALSE
    /\ settingsConfig = Null
    /\ loading = TRUE
    /\ saving = FALSE
    /\ message = Null
    /\ gets = 0
    /\ saves = <<>>
    /\ fetches = 0
    /\ lastSave = "none"

\* The main process when the module has been loaded: no window, no child,
\* pythonProcess null, the app not ready yet.
ElectronStarting ==
    /\ appState = "starting"
    /\ windows = 0
    /\ pythonProcess = 0
    /\ procs = [p \in 1..MaxProcs |-> "none"]
    /\ console = <<>>
    /\ spawns = 0
    /\ kills = 0

\* The state after the first render and the first run of the mount effect:
\* waitForBackend() has been called and its GET /health is in flight.
\* The main process is followed on its own, under ElectronSpec.
Init ==
    /\ activeTab = "Viral Generator"
    /\ logs = <<>>
    /\ error = Null
    /\ isProcessing = FALSE
    /\ activeStep = 0
    /\ config = [mode |-> "viral", url |-> ""]
    /\ ws = 0
    /\ sockets = [s \in Slots |-> "closed"]
    /\ reconnectTimer = 0
    /\ healthCheckTimer = 0
    /\ health = 1
    /\ posts = <<>>
    /\ mounted = TRUE
    /\ epFails = 0
    /\ epRetries = 0
    /\ terminalSeen = FALSE
    /\ unresolved = FALSE
    /\ jobPosts = 0
    /\ jobClears = 0
    /\ lastCall = "none"
    /\ started = FALSE
    /\ SettingsUnmounted
    /\ ElectronStarting
    /\ platform = "linux"

\* A state update reaches the component only while it is mounted; the log
\* is followed up to MaxLog entries.
Room == ~mounted \/ Len(logs) < MaxLog

\* ------------------------------------------------------ the monitor effect
\* ws.close(): starts the closing handshake of a connecting or open socket,
\* and does nothing to a closing or closed one.
CloseCall(socks, s) ==
    IF s # 0 /\ socks[s] \in {"connecting", "open"}
    THEN [socks EXCEPT ![s] = "closing"]
    ELSE socks

\* Mutant: ws.onclose schedules no reconnect.
OnCloseForgotten == reconnectTimer' = reconnectTimer

\* Mutant: ws.onclose schedules the reconnect twice.
OnCloseTwice == reconnectTimer' = reconnectTimer + 2

\* ws.onclose: schedule the reconnect.
OnClose == reconnectTimer' = reconnectTimer + 1

\* connect(): a new WebSocket, assigned to ws.
Connect ==
    \E s \in Slots :
        /\ sockets[s] = "closed"
        /\ \A t \in Slots : t < s => sockets[t] # "closed"
        /\ ws' = s
        /\ sockets' = [sockets EXCEPT ![s] = "connecting"]

\* waitForBackend(), up to its await: GET /health is sent.
WaitForBackend == health' = health + 1

\* The try branch of waitForBackend: the probe succeeded.
ProbeOK ==
    /\ health > 0
    /\ health' = health - 1
    /\ Connect
    /\ lastCall' = "none"
    /\ UNCHANGED <<reactVars, reconnectTimer, healthCheckTimer, posts, mounted,
                   epFails, epRetries, terminalSeen, unresolved, jobPosts, jobClears, started>>
    /\ UNCHANGED settingsVars
    /\ UNCHANGED electronVars

\* Mutant: the catch branch schedules no retry.
ProbeRetryForgotten == healthCheckTimer' = healthCheckTimer

\* Mutant: the catch branch sets the retry timeout twice.
ProbeRetryTwice == healthCheckTimer' = healthCheckTimer + 2

\* The catch branch of waitForBackend: the probe failed, retry in 1 s.
ProbeRetry == healthCheckTimer' = healthCheckTimer + 1

ProbeFail ==
    /\ health > 0
    /\ epFails < MaxFail
    /\ health' = health - 1
    /\ ProbeRetry
    /\ epFails' = epFails + 1
    /\ lastCall' = "none"
    /\ UNCHANGED <<reactVars, ws, sockets, reconnectTimer, posts, mounted,
                   epRetries, terminalSeen, unresolved, jobPosts, jobClears, started>>
    /\ UNCHANGED settingsVars
    /\ UNCHANGED electronVars

\* The 1 s retry timeout fires: waitForBackend runs again.
HealthCheckTimerFires ==
    /\ healthCheckTimer > 0
    /\ healthCheckTimer' = healthCheckTimer - 1
    /\ WaitForBackend
    /\ epRetries' = epRetries + 1
    /\ lastCall' = "none"
    /\ UNCHANGED <<reactVars, ws, sockets, reconnectTimer, posts, mounted,
                   epFails, terminalSeen, unresolved, jobPosts, jobClears, started>>
    /\ UNCHANGED settingsVars
    /\ UNCHANGED electronVars

\* Mutant: the reconnect timeout opens the stream itself, with no probe.
ReconnectsDirectly ==
    /\ reconnectTimer > 0
    /\ reconnectTimer' = reconnectTimer - 1
    /\ Connect
    /\ epFails' = 0
    /\ epRetries' = 0
    /\ lastCall' = "none"
    /\ UNCHANGED <<reactVars, healthCheckTimer, health, posts, mounted,
                   terminalSeen, unresolved, jobPosts, jobClears, started>>
    /\ UNCHANGED settingsVars
    /\ UNCHANGED electronVars

\* The 3 s reconnect timeout fires: a new probing episode starts.
ReconnectTimerFires ==
    /\ reconnectTimer > 0
    /\ reconnectTimer' = reconnectTimer - 1
    /\ WaitForBackend
    /\ epFails' = 0
    /\ epRetries' = 0
    /\ lastCall' = "none"
    /\ UNCHANGED <<reactVars, ws, sockets, healthCheckTimer, posts, mounted,
                   terminalSeen, unresolved, jobPosts, jobClears, started>>
    /\ UNCHANGED settingsVars
    /\ UNCHANGED electronVars

\* Mutant: ws.onopen also resets the job's progress.
WsOpenEventResetsJob(s) ==
    /\ sockets[s] = "connecting"
    /\ Room
    /\ sockets' = [sockets EXCEPT ![s] = "open"]
    /\ IF mounted
       THEN /\ logs' = Append(logs, <<"--- Connected to Backend ---">>)
            /\ error' = Null
            /\ isProcessing' = FALSE
            /\ activeStep' = 0
       ELSE UNCHANGED <<logs, error, isProcessing, activeStep>>
    /\ lastCall' = "none"
    /\ UNCHANGED <<activeTab, config, ws, reconnectTimer,
                   healthCheckTimer, health, posts, mounted,
                   epFails, epRetries, terminalSeen, unresolved, jobPosts, jobClears, started>>
    /\ UNCHANGED settingsVars
    /\ UNCHANGED electronVars

\* Mutant: ws.onopen leaves the error on display.
WsOpenEventKeepsError(s) ==
    /\ sockets[s] = "connecting"
    /\ Room
    /\ sockets' = [sockets EXCEPT ![s] = "open"]
    /\ IF mounted
       THEN logs' = Append(logs, <<"--- Connected to Backend ---">>)
       ELSE UNCHANGED logs
    /\ lastCall' = "none"
    /\ UNCHANGED <<error, isProcessing, activeStep>>
    /\ UNCHANGED <<activeTab, config, ws, reconnectTimer,
                   healthCheckTimer, health, posts, mounted,
                   epFails, epRetries, terminalSeen, unresolved, jobPosts, jobClears, started>>
    /\ UNCHANGED settingsVars
    /\ UNCHANGED electronVars

\* Mutant: ws.onopen starts the log over with the marker.
WsOpenEventRestartsLog(s) ==
    /\ sockets[s] = "connecting"
    /\ Room
    /\ sockets' = [sockets EXCEPT ![s] = "open"]
    /\ IF mounted
       THEN /\ logs' = << <<"--- Connected to Backend ---">> >>
            /\ error' = Null
       ELSE UNCHANGED <<logs, error>>
    /\ lastCall' = "none"
    /\ UNCHANGED <<isProcessing, activeStep>>
    /\ UNCHANGED <<activeTab, config, ws, reconnectTimer,
                   healthCheckTimer, health, posts, mounted,
                   epFails, epRetries, terminalSeen, unresolved, jobPosts, jobClears, started>>
    /\ UNCHANGED settingsVars
    /\ UNCHANGED electronVars

\* ws.onopen
WsOpenEvent(s) ==
    /\ sockets[s] = "connecting"
    /\ Room
    /\ sockets' = [sockets EXCEPT ![s] = "open"]
    /\ IF mounted
       THEN /\ logs' = Append(logs, <<"--- Connected to Backend ---">>)
            /\ error' = Null
       ELSE UNCHANGED <<logs, error>>
    /\ lastCall' = "none"
    /\ UNCHANGED <<activeTab, isProcessing, activeStep, config, ws, reconnectTimer,
                   healthCheckTimer, health, posts, mounted,
                   epFails, epRetries, terminalSeen, unresolved, jobPosts, jobClears, started>>
    /\ UNCHANGED settingsVars
    /\ UNCHANGED electronVars

\* Mutant: the success marker does not complete the stepper.
StepOnMessageStagesOnly(msg, cur) == StepAfter(msg, cur)

\* The step ws.onmessage leaves: the stage ifs, then setActiveStep(5) on a
\* success marker.
StepOnMessage(msg, cur) ==
    IF IsSuccessLine(msg) THEN COMPLETE ELSE StepAfter(msg, cur)

\* Mutant: the error marker does not clear the processing flag.
ProcessingOnSuccessOnly(msg, cur) ==
    IF IsSuccessLine(msg) THEN FALSE ELSE cur

\* The processing flag ws.onmessage leaves.
ProcessingOnMessage(msg, cur) ==
    IF IsSuccessLine(msg) \/ IsErrorLine(msg) THEN FALSE ELSE cur

\* ws.onmessage
WsMessageEvent(s, msg) ==
    /\ sockets[s] = "open"
    /\ Room
    /\ IF mounted
       THEN /\ logs' = Append(logs, msg)
            /\ activeStep' = StepOnMessage(msg, activeStep)
            /\ isProcessing' = ProcessingOnMessage(msg, isProcessing)
            /\ IF IsSuccessLine(msg) \/ IsErrorLine(msg)
               THEN /\ terminalSeen' = TRUE
                    /\ unresolved' = FALSE
                    /\ jobPosts' = 0
                    /\ jobClears' = 0
               ELSE UNCHANGED <<terminalSeen, unresolved, jobPosts, jobClears>>
       ELSE UNCHANGED <<logs, activeStep, isProcessing,
                        terminalSeen, unresolved, jobPosts, jobClears>>
    /\ lastCall' = "none"
    /\ UNCHANGED <<activeTab, error, config, monitorVars, posts, mounted,
                   epFails, epRetries, started>>
    /\ UNCHANGED settingsVars
    /\ UNCHANGED electronVars

\* Mutant: ws.onclose reports the disconnection to the user (the setError
\* that the source keeps commented out).
WsCloseEventSetsError(s) ==
    /\ sockets[s] \in {"open", "closing"}
    /\ sockets' = [sockets EXCEPT ![s] = "closed"]
    /\ OnClose
    /\ error' = IF mounted THEN <<"Log stream disconnected. Reconnecting...">> ELSE error
    /\ lastCall' = "none"
    /\ UNCHANGED <<activeTab, logs, isProcessing, activeStep, config, ws, healthCheckTimer,
                   health, posts, mounted,
                   epFails, epRetries, terminalSeen, unresolved, jobPosts, jobClears, started>>
    /\ UNCHANGED settingsVars
    /\ UNCHANGED electronVars

\* The socket closes (the server or the network ends an open stream, or the
\* closing handshake started by ws.close() completes): ws.onclose runs.
WsCloseEvent(s) ==
    /\ sockets[s] \in {"open", "closing"}
    /\ sockets' = [sockets EXCEPT ![s] = "closed"]
    /\ OnClose
    /\ lastCall' = "none"
    /\ UNCHANGED <<reactVars, ws, healthCheckTimer, health, posts, mounted,
                   epFails, epRetries, terminalSeen, unresolved, jobPosts, jobClears, started>>
    /\ UNCHANGED settingsVars
    /\ UNCHANGED electronVars

\* Mutant: the close() of ws.onerror starts a closing handshake of its own,
\* so a second close event follows the one of the failure.
WsErrorEventClosesAgain(s) ==
    /\ sockets[s] \in {"connecting", "open"}
    /\ sockets' = [sockets EXCEPT ![s] = "closing"]
    /\ OnClose
    /\ lastCall' = "none"
    /\ UNCHANGED <<reactVars, ws, healthCheckTimer, health, posts, mounted,
                   epFails, epRetries, terminalSeen, unresolved, jobPosts, jobClears, started>>
    /\ UNCHANGED settingsVars
    /\ UNCHANGED electronVars

\* The connection fails: the socket is closed, then its error event and its
\* close event are dispatched one after the other.  ws.onerror calls
\* ws.close() on the socket the variable ws holds; ws.onclose follows.
WsErrorEvent(s) ==
    /\ sockets[s] \in {"connecting", "open"}
    /\ sockets' = CloseCall([sockets EXCEPT ![s] = "closed"], ws)
    /\ OnClose
    /\ lastCall' = "none"
    /\ UNCHANGED <<reactVars, ws, healthCheckTimer, health, posts, mounted,
                   epFails, epRetries, terminalSeen, unresolved, jobPosts, jobClears, started>>
    /\ UNCHANGED settingsVars
    /\ UNCHANGED electronVars

\* clearTimeout(t) on the handle last stored: it cancels that timeout if it
\* is still pending (timeouts of one delay fire in the order they were set).
ClearTimeout(pending) == IF pending > 0 THEN pending - 1 ELSE 0

\* The cleanup of the mount effect.
Cleanup ==
    /\ mounted
    /\ mounted' = FALSE
    /\ sockets' = CloseCall(sockets, ws)
    /\ reconnectTimer' = ClearTimeout(reconnectTimer)
    /\ healthCheckTimer' = ClearTimeout(healthCheckTimer)
    /\ lastCall' = "none"
    /\ UNCHANGED <<reactVars, ws, health, posts,
                   epFails, epRetries, terminalSeen, unresolved, jobPosts, jobClears, started>>
    /\ UNCHANGED settingsVars
    /\ UNCHANGED electronVars

\* ------------------------------------------------------------ the handlers
\* onClick={() => setActiveTab(text)}
SetActiveTab(t) ==
    /\ mounted
    /\ t # activeTab
    /\ activeTab' = t
    /\ lastCall' = "none"
    /\ UNCHANGED <<logs, error, isProcessing, activeStep, config, monitorVars, posts, mounted,
                   epFails, epRetries, terminalSeen, unresolved, jobPosts, jobClears, started>>
    /\ UNCHANGED settingsVars
    /\ UNCHANGED electronVars

\* handleConfigChange('url', value), from the url field's onChange
HandleConfigChange(key, value) ==
    /\ mounted
    /\ config[key] # value
    /\ config' = [config EXCEPT ![key] = value]
    /\ lastCall' = "none"
    /\ UNCHANGED <<activeTab, logs, error, isProcessing, activeStep, monitorVars, posts,
                   mounted, epFails, epRetries, terminalSeen, unresolved, jobPosts,
                   jobClears, started>>
    /\ UNCHANGED settingsVars
    /\ UNCHANGED electronVars

\* Snackbar / Alert onClose={() => setError(null)}
DismissError ==
    /\ mounted
    /\ error # Null
    /\ error' = Null
    /\ lastCall' = "none"
    /\ UNCHANGED <<activeTab, logs, isProcessing, activeStep, config, monitorVars, posts, mounted,
                   epFails, epRetries, terminalSeen, unresolved, jobPosts, jobClears, started>>
    /\ UNCHANGED settingsVars
    /\ UNCHANGED electronVars

\* const mode = activeTab === 'Viral Generator' ? 'viral' : 'story'
Mode == IF activeTab = "Viral Generator" THEN "viral" ELSE "story"

\* Mutant: the request carries the configuration the component was mounted
\* with, not the current one.
PayloadOfDefaults == [mode |-> Mode, url |-> ""]

\* Mutant: the mode is taken from the configuration, not from the tab.
PayloadKeepsMode == config

\* const payload = { ...config, mode }
Payload == [config EXCEPT !.mode = Mode]

\* Mutant: the early return tests the error instead of the processing flag.
StartIgnoredOnError == error # Null

\* Mutant: the early return is missing.
StartNeverIgnored == FALSE

\* if (isProcessing) return;
StartIgnored == isProcessing

\* Mutant: the stepper is not reset.
ResetForJobKeepsStep ==
    /\ isProcessing' = TRUE
    /\ activeStep' = activeStep
    /\ logs' = <<>>

\* The three state updates that open handleStartJob.
ResetForJob ==
    /\ isProcessing' = TRUE
    /\ activeStep' = 0
    /\ logs' = <<>>

\* handleStartJob, up to its await: either the early return, or the reset
\* and the POST /start-job.
StartJob ==
    /\ mounted
    /\ IF StartIgnored
       THEN /\ lastCall' = "ignored"
            /\ UNCHANGED <<progVars, epFails, epRetries, terminalSeen, unresolved,
                           jobPosts, jobClears, started>>
       ELSE /\ Len(posts) < MaxPosts
            /\ ResetForJob
            /\ posts' = Append(posts, Payload)
            /\ lastCall' = IF terminalSeen THEN "acceptedAfterTerminal" ELSE "accepted"
            /\ terminalSeen' = FALSE
            /\ unresolved' = TRUE
            /\ jobPosts' = jobPosts + 1
            /\ jobClears' = jobClears + 1
            /\ started' = TRUE
            /\ UNCHANGED <<activeTab, error, config, monitorVars, mounted,
                           epFails, epRetries>>
    /\ UNCHANGED settingsVars
    /\ UNCHANGED electronVars

\* posts without its i-th request
Without(q, i) == SubSeq(q, 1, i - 1) \o SubSeq(q, i + 1, Len(q))

\* Mutant: after its await handleStartJob sets the log from the value it
\* had cleared it to, not from the current one: setLogs([...[], entry]).
PostOKStaleLog(i) ==
    /\ i \in DOMAIN posts
    /\ Room
    /\ posts' = Without(posts, i)
    /\ IF mounted
       THEN logs' = << <<"--- Sending Job (", posts[i].mode, ") ---">> >>
       ELSE UNCHANGED logs
    /\ lastCall' = "none"
    /\ UNCHANGED <<activeTab, error, isProcessing, activeStep, config, monitorVars, mounted,
                   epFails, epRetries, terminalSeen, unresolved, jobPosts, jobClears, started>>
    /\ UNCHANGED settingsVars
    /\ UNCHANGED electronVars

\* handleStartJob after its await, the POST answered 2xx.
PostOK(i) ==
    /\ i \in DOMAIN posts
    /\ Room
    /\ posts' = Without(posts, i)
    /\ IF mounted
       THEN logs' = Append(logs, <<"--- Sending Job (", posts[i].mode, ") ---">>)
       ELSE UNCHANGED logs
    /\ lastCall' = "none"
    /\ UNCHANGED <<activeTab, error, isProcessing, activeStep, config, monitorVars, mounted,
                   epFails, epRetries, terminalSeen, unresolved, jobPosts, jobClears, started>>
    /\ UNCHANGED settingsVars
    /\ UNCHANGED electronVars

\* What axios rejects with: no response at all (the backend is unreachable),
\* or a non-2xx response whose body may carry a detail.
Failures ==
    { [response |-> FALSE, hasDetail |-> FALSE, detail |-> <<>>],
      [response |-> TRUE,  hasDetail |-> FALSE, detail |-> <<>>],
      [response |-> TRUE,  hasDetail |-> TRUE,  detail |-> <<>>],
      [response |-> TRUE,  hasDetail |-> TRUE,  detail |-> <<"missing url">>] }

\* err.response?.data?.detail || 'Could not contact backend.'
\* (the empty text is the empty string, which is falsy like undefined)
FailureMsg(err) ==
    LET detail == IF err.response /\ err.hasDetail THEN err.detail ELSE Null
    IN  IF detail # <<>> THEN detail ELSE <<"Could not contact backend.">>

\* Mutant: the message is surfaced without its prefix.
ErrorTextBare(err) == FailureMsg(err)

\* `ERROR: ${msg}`
ErrorText(err) == <<"ERROR: ">> \o FailureMsg(err)

\* Mutant: a failed submission also drops the log stream.
SubmissionFailedClosesStream(err) ==
    /\ error' = ErrorText(err)
    /\ logs' = Append(logs, ErrorText(err))
    /\ isProcessing' = FALSE
    /\ sockets' = CloseCall(sockets, ws)
    /\ UNCHANGED <<ws, reconnectTimer, healthCheckTimer, health>>

\* Mutant: the catch branch leaves the processing flag set.
SubmissionFailedStaysBusy(err) ==
    /\ error' = ErrorText(err)
    /\ logs' = Append(logs, ErrorText(err))
    /\ isProcessing' = isProcessing
    /\ UNCHANGED monitorVars

\* The state updates of the catch branch of handleStartJob.
SubmissionFailed(err) ==
    /\ error' = ErrorText(err)
    /\ logs' = Append(logs, ErrorText(err))
    /\ isProcessing' = FALSE
    /\ UNCHANGED monitorVars

\* handleStartJob after its await, the POST rejected.
PostFail(i, err) ==
    /\ i \in DOMAIN posts
    /\ Room
    /\ posts' = Without(posts, i)
    /\ IF mounted
       THEN /\ SubmissionFailed(err)
            /\ unresolved' = FALSE
            /\ jobPosts' = 0
            /\ jobClears' = 0
       ELSE UNCHANGED <<error, logs, isProcessing, monitorVars,
                        unresolved, jobPosts, jobClears>>
    /\ lastCall' = "none"
    /\ UNCHANGED <<activeTab, activeStep, config, mounted, epFails, epRetries,
                   terminalSeen, started>>
    /\ UNCHANGED settingsVars
    /\ UNCHANGED electronVars

\* ------------------------------------------------------------ SettingsView
\* The configurations the backend answers GET /settings with; of the
\* sections and fields of ConfigState the two the tests edit are followed.
ServerConfigs ==
    { [intelligence |-> [model_name |-> "gpt-4-0125-preview", virality_threshold |-> 75]] }

\* The values the two fields are given.
FieldValues ==
    [model_name |-> {"gpt-4-0125-preview", "gpt-4-turbo"}, virality_threshold |-> {75, 80}]

\* The errors a rejected request carries: err.message is a text, or empty.
RequestErrors == { [message |-> "Network Error"], [message |-> ""] }

\* err.message || fallback
MessageOr(err, fallback) == IF err.message # "" THEN err.message ELSE fallback

\* One instance of the component is followed, from before its mount.
\* The component mounts: first render, then useEffect(() => { fetchSettings(); }, [])
\* up to the await: setLoading(true) and the GET is sent.
SettingsMount ==
    /\ ~settingsMounted
    /\ fetches = 0
    /\ settingsMounted' = TRUE
    /\ loading' = TRUE
    /\ gets' = gets + 1
    /\ fetches' = fetches + 1
    /\ UNCHANGED <<settingsConfig, saving, message, saves>>
    /\ lastSave' = "none"
    /\ UNCHANGED appVars
    /\ UNCHANGED electronVars

\* The component unmounts: state updates of requests still in flight are dropped.
SettingsUnmount ==
    /\ settingsMounted
    /\ settingsMounted' = FALSE
    /\ UNCHANGED <<settingsConfig, loading, saving, message, gets, saves, fetches>>
    /\ lastSave' = "none"
    /\ UNCHANGED appVars
    /\ UNCHANGED electronVars

\* fetchSettings after the await: setConfig(res.data); setLoading(false)
FetchOK(data) ==
    /\ gets > 0
    /\ gets' = gets - 1
    /\ IF settingsMounted
       THEN /\ settingsConfig' = data
            /\ loading' = FALSE
       ELSE UNCHANGED <<settingsConfig, loading>>
    /\ UNCHANGED <<settingsMounted, saving, message, saves, fetches>>
    /\ lastSave' = "none"
    /\ UNCHANGED appVars
    /\ UNCHANGED electronVars

\* Mutant: the catch branch of fetchSettings leaves the spinner on.
FetchFailedStaysLoading(err) ==
    /\ message' = [type |-> "error", text |-> MessageOr(err, "Failed to load settings")]
    /\ loading' = loading

\* The catch branch of fetchSettings.
FetchFailed(err) ==
    /\ message' = [type |-> "error", text |-> MessageOr(err, "Failed to load settings")]
    /\ loading' = FALSE

FetchFail(err) ==
    /\ gets > 0
    /\ gets' = gets - 1
    /\ IF settingsMounted
       THEN FetchFailed(err)
       ELSE UNCHANGED <<message, loading>>
    /\ UNCHANGED <<settingsMounted, settingsConfig, saving, saves, fetches>>
    /\ lastSave' = "none"
    /\ UNCHANGED appVars
    /\ UNCHANGED electronVars

\* updateField(section, field, value): setConfig(prev => prev ? {...} : null)
UpdateField(section, field, value) ==
    /\ settingsMounted
    /\ settingsConfig' =
          IF settingsConfig = Null THEN Null
          ELSE [settingsConfig EXCEPT ![section] = [@ EXCEPT ![field] = value]]
    /\ settingsConfig' # settingsConfig
    /\ UNCHANGED <<settingsMounted, loading, saving, message, gets, saves, fetches>>
    /\ lastSave' = "none"
    /\ UNCHANGED appVars
    /\ UNCHANGED electronVars

\* Mutant: handleSave posts the sections as they are without the edits of
\* the model name.
SaveBodyStale ==
    [settingsConfig EXCEPT !.intelligence.model_name = "gpt-4-0125-preview"]

\* The body of axios.post('/settings', config)
SaveBody == settingsConfig

\* handleSave up to the await: nothing with a null config, else
\* setSaving(true) and the POST is sent.
HandleSave ==
    /\ settingsMounted
    /\ IF settingsConfig = Null
       THEN /\ lastSave' = "skipped"
            /\ UNCHANGED <<saving, saves>>
       ELSE /\ Len(saves) < MaxSaves
            /\ saving' = TRUE
            /\ saves' = Append(saves, SaveBody)
            /\ lastSave' = "sent"
    /\ UNCHANGED <<settingsMounted, settingsConfig, loading, message, gets, fetches>>
    /\ UNCHANGED appVars
    /\ UNCHANGED electronVars

\* handleSave after the await: the success message; setSaving(false)
SaveOK(i) ==
    /\ i \in DOMAIN saves
    /\ saves' = Without(saves, i)
    /\ IF settingsMounted
       THEN /\ message' = [type |-> "success", text |-> "Settings saved successfully"]
            /\ saving' = FALSE
       ELSE UNCHANGED <<message, saving>>
    /\ UNCHANGED <<settingsMounted, settingsConfig, loading, gets, fetches>>
    /\ lastSave' = "none"
    /\ UNCHANGED appVars
    /\ UNCHANGED electronVars

\* The catch branch of handleSave.
SaveFail(i, err) ==
    /\ i \in DOMAIN saves
    /\ saves' = Without(saves, i)
    /\ IF settingsMounted
       THEN /\ message' = [type |-> "error", text |-> MessageOr(err, "Save failed")]
            /\ saving' = FALSE
       ELSE UNCHANGED <<message, saving>>
    /\ UNCHANGED <<settingsMounted, settingsConfig, loading, gets, fetches>>
    /\ lastSave' = "none"
    /\ UNCHANGED appVars
    /\ UNCHANGED electronVars

\* Snackbar / Alert onClose={() => setMessage(null)}
CloseMessage ==
    /\ settingsMounted
    /\ message # Null
    /\ message' = Null
    /\ UNCHANGED <<settingsMounted, settingsConfig, loading, saving, gets, saves, fetches>>
    /\ lastSave' = "none"
    /\ UNCHANGED appVars
    /\ UNCHANGED electronVars

SettingsNext ==
    \/ SettingsMount
    \/ SettingsUnmount
    \/ \E data \in ServerConfigs : FetchOK(data)
    \/ \E err \in RequestErrors : FetchFail(err)
    \/ \E field \in DOMAIN FieldValues :
          \E value \in FieldValues[field] : UpdateField("intelligence", field, value)
    \/ HandleSave
    \/ \E i \in 1..MaxSaves : SaveOK(i)
    \/ \E i \in 1..MaxSaves, err \in RequestErrors : SaveFail(i, err)
    \/ CloseMessage

\* SettingsView on its own, from before its mount.
SettingsSpec == Init /\ [][SettingsNext]_vars

\* ------------------------------------------------------- electron/main.ts
\* What the backend writes to its stdout or stderr in one chunk.
PythonOutput == {"INFO: started"}

\* The console output is followed up to MaxConsole entries, the last of
\* which is kept for the entry of killPythonProcess.
ConsoleRoom == Len(console) + 1 < MaxConsole

\* createPythonProcess(): the console entry, spawn, the handle stored.
CreatePythonProcess ==
    \E p \in 1..MaxProcs :
        /\ procs[p] = "none"
        /\ \A q \in 1..MaxProcs : q < p => procs[q] # "none"
        /\ console' = Append(console, "Starting Python Backend...")
        /\ procs' = [procs EXCEPT ![p] = "running"]
        /\ pythonProcess' = p
        /\ spawns' = spawns + 1

\* killPythonProcess(): with a handle, the console entry, kill() (a signal
\* to a child that still runs, nothing to one that has exited) and the
\* handle set to null; without one, nothing.
KillPythonProcess ==
    IF pythonProcess # 0
    THEN /\ console' = Append(console, "Killing Python Backend...")
         /\ procs' = [procs EXCEPT ![pythonProcess] =
                          IF @ = "running" THEN "killed" ELSE @]
         /\ kills' = kills + 1
         /\ pythonProcess' = 0
    ELSE UNCHANGED <<console, procs, kills, pythonProcess>>

\* createWindow()
CreateWindow == windows' = windows + 1

\* app.whenReady().then(...): the backend is started, the window created
\* and the activate handler registered.
AppReady ==
    /\ appState = "starting"
    /\ appState' = "ready"
    /\ CreatePythonProcess
    /\ CreateWindow
    /\ UNCHANGED <<platform, kills>>
    /\ UNCHANGED appVars
    /\ UNCHANGED settingsVars

\* Mutant: activate with no window starts the backend again with the window.
ActivateRespawns ==
    /\ appState = "ready"
    /\ platform = "darwin"
    /\ IF windows = 0
       THEN CreatePythonProcess /\ CreateWindow
       ELSE UNCHANGED <<windows, pythonProcess, procs, console, spawns>>
    /\ UNCHANGED <<appState, platform, kills>>
    /\ UNCHANGED appVars
    /\ UNCHANGED settingsVars

\* app.on('activate', ...), an event of macOS, handled once the app is ready.
Activate ==
    /\ appState = "ready"
    /\ platform = "darwin"
    /\ IF windows = 0 THEN CreateWindow ELSE UNCHANGED windows
    /\ UNCHANGED <<appState, platform, pythonProcess, procs, console, spawns, kills>>
    /\ UNCHANGED appVars
    /\ UNCHANGED settingsVars

\* The user closes a window; when it was the last one 'window-all-closed'
\* is emitted, whose handler calls app.quit() unless on macOS.
WindowClosed ==
    /\ appState = "ready"
    /\ windows > 0
    /\ windows' = windows - 1
    /\ appState' = IF windows' = 0 /\ platform # "darwin" THEN "quitting" ELSE appState
    /\ UNCHANGED <<platform, pythonProcess, procs, console, spawns, kills>>
    /\ UNCHANGED appVars
    /\ UNCHANGED settingsVars

\* The user or the system asks the app to quit (menu, Cmd+Q, session end),
\* also before it is ready: the windows are closed without
\* 'window-all-closed' being emitted.
QuitRequested ==
    /\ appState \in {"starting", "ready"}
    /\ appState' = "quitting"
    /\ windows' = 0
    /\ UNCHANGED <<platform, pythonProcess, procs, console, spawns, kills>>
    /\ UNCHANGED appVars
    /\ UNCHANGED settingsVars

\* app.on('will-quit', ...)
WillQuit ==
    /\ appState = "quitting"
    /\ appState' = "quit"
    /\ KillPythonProcess
    /\ UNCHANGED <<platform, windows, spawns>>
    /\ UNCHANGED appVars
    /\ UNCHANGED settingsVars

\* The backend exits by itself; the handle keeps pointing at it.
ChildExits(p) ==
    /\ procs[p] = "running"
    /\ procs' = [procs EXCEPT ![p] = "exited"]
    /\ UNCHANGED <<appState, platform, windows, pythonProcess, console, spawns, kills>>
    /\ UNCHANGED appVars
    /\ UNCHANGED settingsVars

\* pythonProcess.stdout?.on('data', ...)
ChildStdout(p, data) ==
    /\ procs[p] = "running"
    /\ ConsoleRoom
    /\ console' = Append(console, "[Python]: " \o data)
    /\ UNCHANGED <<appState, platform, windows, pythonProcess, procs, spawns, kills>>
    /\ UNCHANGED appVars
    /\ UNCHANGED settingsVars

\* pythonProcess.stderr?.on('data', ...)
ChildStderr(p, data) ==
    /\ procs[p] = "running"
    /\ ConsoleRoom
    /\ console' = Append(console, "[Python Err]: " \o data)
    /\ UNCHANGED <<appState, platform, windows, pythonProcess, procs, spawns, kills>>
    /\ UNCHANGED appVars
    /\ UNCHANGED settingsVars

\* The main process at its start, on macOS or elsewhere; the renderer's
\* components are as in Init.
ElectronInit ==
    /\ activeTab = "Viral Generator"
    /\ logs = <<>>
    /\ error = Null
    /\ isProcessing = FALSE
    /\ activeStep = 0
    /\ config = [mode |-> "viral", url |-> ""]
    /\ ws = 0
    /\ sockets = [s \in Slots |-> "closed"]
    /\ reconnectTimer = 0
    /\ healthCheckTimer = 0
    /\ health = 1
    /\ posts = <<>>
    /\ mounted = TRUE
    /\ epFails = 0
    /\ epRetries = 0
    /\ terminalSeen = FALSE
    /\ unresolved = FALSE
    /\ jobPosts = 0
    /\ jobClears = 0
    /\ lastCall = "none"
    /\ started = FALSE
    /\ SettingsUnmounted
    /\ ElectronStarting
    /\ platform \in {"darwin", "linux"}

ElectronNext ==
    \/ AppReady
    \/ Activate
    \/ WindowClosed
    \/ QuitRequested
    \/ WillQuit
    \/ \E p \in 1..MaxProcs : ChildExits(p)
    \/ \E p \in 1..MaxProcs, data \in PythonOutput : ChildStdout(p, data)
    \/ \E p \in 1..MaxProcs, data \in PythonOutput : ChildStderr(p, data)

ElectronSpec == ElectronInit /\ [][ElectronNext]_vars

\* ------------------------------------------------------ the specifications
Next ==
    \/ ProbeOK
    \/ ProbeFail
    \/ HealthCheckTimerFires
    \/ ReconnectTimerFires
    \/ \E s \in Slots : WsOpenEvent(s)
    \/ \E s \in Slots, msg \in Lines : WsMessageEvent(s, msg)
    \/ \E s \in Slots : WsCloseEvent(s)
    \/ \E s \in Slots : WsErrorEvent(s)
    \/ Cleanup
    \/ \E t \in Tabs : SetActiveTab(t)
    \/ DismissError
    \/ StartJob
    \/ \E i \in 1..MaxPosts : PostOK(i)
    \/ \E i \in 1..MaxPosts, err \in Failures : PostFail(i, err)

Spec == Init /\ [][Next]_vars

\* The same component with the url field being edited as well.  No handler
\* of the monitor or of the job reads config.url, it is only copied into the
\* request, so the claims about the monitor and the job are checked with
\* the field left as mounted and the claims about the request with FormSpec.
FormNext ==
    \/ Next
    \/ \E u \in Urls : HandleConfigChange("url", u)

FormSpec == Init /\ [][FormNext]_vars

\* The monitor with no shutdown: every handler but the effect's cleanup.
LiveNext ==
    \/ ProbeOK
    \/ ProbeFail
    \/ HealthCheckTimerFires
    \/ ReconnectTimerFires
    \/ \E s \in Slots : WsOpenEvent(s)
    \/ \E s \in Slots, msg \in Lines : WsMessageEvent(s, msg)
    \/ \E s \in Slots : WsCloseEvent(s)
    \/ \E s \in Slots : WsErrorEvent(s)
    \/ \E t \in Tabs : SetActiveTab(t)
    \/ DismissError
    \/ StartJob
    \/ \E i \in 1..MaxPosts : PostOK(i)
    \/ \E i \in 1..MaxPosts, err \in Failures : PostFail(i, err)

\* The event loop runs every timeout that is due and every settled request
\* (weak fairness); a probe fails at most MaxFail times in a row, so a probe
\* that keeps being sent is eventually answered; and a backend that keeps
\* answering the probe eventually accepts the stream (strong fairness of
\* the open event).
LiveSpec ==
    /\ Init
    /\ [][LiveNext]_vars
    /\ WF_vars(HealthCheckTimerFires)
    /\ WF_vars(ReconnectTimerFires)
    /\ WF_vars(ProbeOK \/ ProbeFail)
    /\ SF_vars(\E s \in Slots : WsOpenEvent(s))

\* The outcome of the job as the component shows it: the chip reads
\* "Processing..." while isProcessing is set, and of an ended job the
\* stepper shows every step complete exactly when activeStep is 5.
JobOutcome ==
    IF isProcessing THEN "None"
    ELSE IF activeStep = COMPLETE THEN "Success" ELSE "Failure"

\* The classifier alone: the stream is open and a job has just been
\* accepted (log cleared, step 0, flag set, its POST awaiting the answer),
\* and lines arrive, among them lines on which several ifs match.
ClassifierInit ==
    /\ activeTab = "Viral Generator"
    /\ logs = <<>>
    /\ error = Null
    /\ isProcessing = TRUE
    /\ activeStep = 0
    /\ config = [mode |-> "viral", url |-> ""]
    /\ ws = 1
    /\ sockets = [s \in Slots |-> IF s = 1 THEN "open" ELSE "closed"]
    /\ reconnectTimer = 0
    /\ healthCheckTimer = 0
    /\ health = 0
    /\ posts = << [mode |-> "viral", url |-> ""] >>
    /\ mounted = TRUE
    /\ epFails = 0
    /\ epRetries = 0
    /\ terminalSeen = FALSE
    /\ unresolved = TRUE
    /\ jobPosts = 1
    /\ jobClears = 1
    /\ lastCall = "accepted"
    /\ started = TRUE
    /\ SettingsUnmounted
    /\ ElectronStarting
    /\ platform = "linux"

ClassifierNext ==
    \E s \in Slots, msg \in Lines \cup MarkedLines : WsMessageEvent(s, msg)

ClassifierSpec == ClassifierInit /\ [][ClassifierNext]_vars

\* ------------------------------------------------------------- properties
LineArrives == \E s \in Slots, msg \in Lines : WsMessageEvent(s, msg)
StageOnlyLineArrives ==
    \E s \in Slots, msg \in Lines :
        /\ IsStageLine(msg) /\ ~IsSuccessLine(msg) /\ ~IsErrorLine(msg)
        /\ WsMessageEvent(s, msg)
SubmissionFails == \E i \in 1..MaxPosts, err \in Failures : PostFail(i, err)
Streaming == ws # 0 /\ sockets[ws] = "open"

\* C1 (the claim as stated; the code violates it): within one job the stage
\* index never decreases when a line arrives on the stream.
C1_MonotonicStage ==
    [][(mounted /\ isProcessing /\ LineArrives) => activeStep' >= activeStep]_vars

\* C2 (the claim as stated; the code violates it): once a success or error
\* marker has been seen for the job, a line carrying only stage keywords
\* changes neither the stage index nor the processing flag.
C2_TerminalSticky ==
    [][(mounted /\ terminalSeen /\ StageOnlyLineArrives)
          => (activeStep' = activeStep /\ isProcessing' = isProcessing)]_vars

\* C3: while an accepted start is unresolved (no failed submission and no
\* marker line since), exactly one POST /start-job has been sent and the
\* log has been cleared exactly once, however many times start was invoked.
C3_AtMostOneActiveJob == unresolved => (jobPosts = 1 /\ jobClears = 1)

\* C3 witness: a second start was invoked, and ignored, while the first job
\* was unresolved.
C3_Witness == lastCall = "ignored" /\ unresolved /\ jobPosts = 1 /\ posts # <<>>

\* C4 (the claim as stated; the code violates it): at most one
\* POST /start-job is awaiting its response.
C4_OnePostInFlight == Len(posts) <= 1

\* C5: in the state in which an accepted start has just issued its POST,
\* the log is empty, the stage index is 0 and the job is marked outstanding,
\* and the request is the newest one in flight.
C5_CleanReset ==
    lastCall \in {"accepted", "acceptedAfterTerminal"}
        => /\ logs = <<>>
           /\ activeStep = 0
           /\ isProcessing
           /\ posts # <<>>
           /\ posts[Len(posts)] = Payload

\* C5 witness: a start accepted after the previous job ended on a marker line.
C5_Witness == lastCall = "acceptedAfterTerminal" /\ error = Null

\* C6: start invoked while the processing flag is set changes nothing of
\* the program's state and sends nothing.
C6_StartIsNoOp == [][(StartJob /\ isProcessing) => UNCHANGED progVars]_vars

\* C6 witness: a start was ignored while a job was outstanding, the stream
\* open and the log not empty.
C6_Witness == lastCall = "ignored" /\ isProcessing /\ Streaming /\ logs # <<>>

C8_FailureKeepsMonitoring ==
    [][(StartJob \/ SubmissionFails) => UNCHANGED monitorVars]_vars

\* C8 witness: a submission has failed while the stream was open.
C8_Witness ==
    /\ error # Null /\ logs # <<>> /\ logs[Len(logs)] = error
    /\ Streaming /\ reconnectTimer = 0 /\ healthCheckTimer = 0 /\ health = 0

\* C9: a failed submission sets the user-visible error, clears the
\* processing flag and answers exactly one request; nothing else sets the
\* error; and a start invoked with the flag clear sends a new POST.
C9_FailureEndsJobOnly ==
    [][/\ (mounted /\ SubmissionFails)
            => (error' # Null /\ ~isProcessing' /\ Len(posts') = Len(posts) - 1)
       /\ (error' # Null /\ error' # error) => SubmissionFails
       /\ (StartJob /\ ~isProcessing)
            => (isProcessing' /\ Len(posts') = Len(posts) + 1)]_vars

\* C9 witness: a start was accepted while the error of the failed
\* submission before it was still on display.
C9_Witness == lastCall = "accepted" /\ error # Null /\ Len(posts) = 1

Live == {s \in Slots : sockets[s] \in {"connecting", "open"}}

\* C11: in every reachable state at most one log-stream connection
\* (a WebSocket connecting or open) exists.
C11_OneStream == Cardinality(Live) <= 1

\* C11 witness: the connection of a reconnect is being set up after an
\* earlier stream was opened and lost, probes having failed in between.
C11_Witness ==
    /\ \E s \in Slots : sockets[s] = "connecting"
    /\ logs # <<>> /\ logs[1] = <<"--- Connected to Backend ---">>
    /\ epFails > 0

\* A stream connection is created in this step.
StreamCreated == \E s \in Slots : sockets[s] # "connecting" /\ sockets'[s] = "connecting"

\* A stream connection reaches the closed state in this step.
StreamClosed == \E s \in Slots : sockets[s] # "closed" /\ sockets'[s] = "closed"

\* C12: a stream connection is created only in the step in which a
\* GET /health succeeds (the probe is answered and no retry is scheduled);
\* a failed probe (answered, retry scheduled) leaves the sockets alone; the
\* step that closes a stream creates none and sends no probe, it schedules
\* the reconnect timeout; and a probe is sent only by a timeout firing.
C12_ProbeBeforeStream ==
    [][/\ StreamCreated
            => (ProbeOK /\ health' = health - 1 /\ healthCheckTimer' = healthCheckTimer)
       /\ ProbeFail => (sockets' = sockets /\ ws' = ws)
       /\ StreamClosed
            => (~StreamCreated /\ health' = health
                /\ reconnectTimer' = reconnectTimer + 1)
       /\ health' > health
            => (reconnectTimer' < reconnectTimer
                \/ healthCheckTimer' < healthCheckTimer)]_vars

\* C12 witness: the connection of a reconnect is created by the probe that
\* succeeded after MaxFail failed ones, the lost stream having carried a job.
C12_Witness ==
    /\ \E s \in Slots : sockets[s] = "connecting"
    /\ epFails = MaxFail /\ epRetries = MaxFail
    /\ started /\ mounted /\ health = 0

\* C13 (the claim as stated; the code violates it): after the cleanup no
\* timeout is pending and no stream connection is connecting or open.
C13_NothingLeaked ==
    ~mounted => (reconnectTimer = 0 /\ healthCheckTimer = 0 /\ Live = {})

C15_OutcomeSetOnce ==
    [][(mounted /\ terminalSeen /\ LineArrives) => JobOutcome' = JobOutcome]_vars

\* C19 (the claim as stated; the code violates it): after the cleanup no
\* callback changes the component's state, sends a probe, schedules a
\* timeout or creates a stream connection.
C19_StaleCallbacksNoOp ==
    [][~mounted
          => /\ UNCHANGED reactVars
             /\ health' <= health
             /\ reconnectTimer' <= reconnectTimer
             /\ healthCheckTimer' <= healthCheckTimer
             /\ ~StreamCreated]_vars

\* The least and the greatest element of a non-empty set of numbers.
Least(S) == CHOOSE k \in S : \A j \in S : k <= j
Greatest(S) == CHOOSE k \in S : \A j \in S : k >= j

\* C20 (the claim as stated; refuted): the first if that matches decides
\* alone: a stage if gives its stage and nothing else, the success if gives
\* step 5 and a cleared flag, the error if a cleared flag.
C20_FirstRuleWins ==
    [][\A s \in Slots, msg \in Lines \cup MarkedLines :
          (WsMessageEvent(s, msg) /\ Matching(msg) # {})
             => LET k == Least(Matching(msg))
                IN  /\ activeStep' = IF k <= 4 THEN k
                                      ELSE IF k = 5 THEN COMPLETE ELSE activeStep
                    /\ isProcessing' = IF k >= 5 THEN FALSE ELSE isProcessing]_vars

\* C20 (amended): every if that matches is applied, in source order: the
\* step is 5 when the success if matches, otherwise the stage of the last
\* stage if that matches, otherwise unchanged; and the flag is cleared
\* when the success if or the error if matches, otherwise unchanged.
C20_EveryRuleApplies ==
    [][\A s \in Slots, msg \in Lines \cup MarkedLines :
          WsMessageEvent(s, msg)
             => LET m == Matching(msg)
                    stages == m \cap (0..4)
                IN  /\ activeStep' = IF 5 \in m THEN COMPLETE
                                      ELSE IF stages # {} THEN Greatest(stages)
                                      ELSE activeStep
                    /\ isProcessing' = IF 5 \in m \/ 6 \in m THEN FALSE
                                        ELSE isProcessing]_vars

\* C20 witness: a line matching two stage ifs has left the later stage,
\* and a line matching a stage if and the success if has completed the job.
C20_Witness ==
    /\ logs = << <<"Compositing", "Curating">>, <<"Packaging", "Successfully processed">> >>
    /\ activeStep = COMPLETE /\ ~isProcessing

\* C16: the request an accepted start sends carries every field of the
\* configuration as it stands at that moment, with mode "viral" on the
\* Viral Generator tab and "story" otherwise; an edit of the configuration
\* leaves the requests in flight as they are, and so does every step that
\* neither sends nor answers one; an answer removes one request only.
C16_PayloadIsSnapshot ==
    [][/\ (StartJob /\ ~isProcessing)
            => posts' = Append(posts,
                  [f \in DOMAIN config |->
                       IF f = "mode"
                       THEN (IF activeTab = "Viral Generator" THEN "viral" ELSE "story")
                       ELSE config[f]])
       /\ config' # config => posts' = posts
       /\ Len(posts') = Len(posts) => posts' = posts
       /\ Len(posts') < Len(posts) => \E i \in DOMAIN posts : posts' = Without(posts, i)]_vars

\* C16 witness: the request in flight carries the url and the mode of the
\* moment of the start, the url field and the tab having changed since.
C16_Witness ==
    /\ posts = << [mode |-> "story", url |-> "https://youtube.com/test"] >>
    /\ config.url = "" /\ activeTab = "Viral Generator" /\ isProcessing

\* C17: SettingsView shows the spinner from its mount until its
\* GET /settings settles, and no message is set meanwhile; a successful
\* GET stores the response as the config, sets no message and ends the
\* loading; a failed GET leaves the config null, sets an error message with
\* a text and ends the loading; and one GET is sent per mount, no more.
C17_SettingsLoad ==
    /\ []((settingsMounted /\ gets > 0)
            => (loading /\ settingsConfig = Null /\ message = Null))
    /\ [](settingsMounted => fetches = 1)
    /\ [](fetches <= 1 /\ gets <= fetches)
    /\ [][/\ \A data \in ServerConfigs :
               (settingsMounted /\ FetchOK(data))
                  => (settingsConfig' = data /\ message' = Null /\ ~loading')
          /\ \A err \in RequestErrors :
               (settingsMounted /\ FetchFail(err))
                  => /\ settingsConfig' = Null
                     /\ message' # Null
                     /\ message'.type = "error"
                     /\ message'.text # ""
                     /\ ~loading'
          /\ fetches' # fetches => SettingsMount]_vars

\* C17 witness: the load has failed with an error that carries no text:
\* the spinner is off, the config is null and the fallback text is shown.
C17_Witness ==
    /\ settingsMounted /\ ~loading /\ settingsConfig = Null /\ gets = 0
    /\ message = [type |-> "error", text |-> "Failed to load settings"]

\* C18: handleSave with a config posts exactly the current config, edits
\* included, and sets the saving flag; with a null config it sends nothing
\* and changes nothing; the answer to a save sets the success message, its
\* failure an error message; either clears the saving flag; and no step of
\* a save changes the local config.
C18_SettingsSave ==
    [][/\ (HandleSave /\ settingsConfig # Null)
            => (saves' = Append(saves, settingsConfig) /\ saving')
       /\ (HandleSave /\ settingsConfig = Null)
            => UNCHANGED <<settingsMounted, settingsConfig, loading, saving, message,
                           gets, saves, fetches>>
       /\ \A i \in 1..MaxSaves :
            (settingsMounted /\ SaveOK(i))
               => /\ message' = [type |-> "success", text |-> "Settings saved successfully"]
                  /\ ~saving'
       /\ \A i \in 1..MaxSaves, err \in RequestErrors :
            (settingsMounted /\ SaveFail(i, err))
               => (message'.type = "error" /\ message'.text # "" /\ ~saving')
       /\ (saves' # saves \/ lastSave' # "none") => settingsConfig' = settingsConfig]_vars

\* C18 witness: a save is in flight whose body carries both edits made
\* since the load.
C18_Witness ==
    /\ lastSave = "sent" /\ saving /\ Len(saves) = 1
    /\ saves[1] = [intelligence |-> [model_name |-> "gpt-4-turbo", virality_threshold |-> 80]]

\* C21: in every reachable state at most one of a GET /health in flight,
\* a pending probe-retry timeout and a pending reconnect timeout exists,
\* and never two of one kind.
C21_OneProbe == health + healthCheckTimer + reconnectTimer <= 1

\* C21 witness: the retry timeout of a failed probe is pending, in the
\* episode that followed the loss of a stream, and nothing else with it.
C21_Witness ==
    /\ healthCheckTimer = 1 /\ health = 0 /\ reconnectTimer = 0
    /\ epFails = 1 /\ logs # <<>> /\ logs[1] = <<"--- Connected to Backend ---">>
    /\ Live = {}

\* C27: from the mount until the cleanup exactly one of a GET /health in
\* flight, a pending probe-retry timeout, a socket connecting or open and
\* a pending reconnect timeout exists.
C27_OneActivity ==
    mounted => health + healthCheckTimer + reconnectTimer + Cardinality(Live) = 1

\* C27 witness: the reconnect timeout is the one activity, after the
\* connection was lost while a job was running.
C27_Witness ==
    /\ mounted /\ reconnectTimer = 1 /\ health = 0 /\ healthCheckTimer = 0 /\ Live = {}
    /\ isProcessing /\ started

\* The end of a stream connection: its close event, or its error event
\* with the close event that follows it.
StreamEnds == \E s \in Slots : WsCloseEvent(s) \/ WsErrorEvent(s)

\* The events of the monitor other than the arrival of a line.
ConnectivityEvent ==
    \/ ProbeOK \/ ProbeFail \/ HealthCheckTimerFires \/ ReconnectTimerFires
    \/ StreamEnds
    \/ \E s \in Slots : WsOpenEvent(s)

\* C22: a stream connection that ends, by close alone or by error and
\* close, is closed for good in that step and schedules one reconnect
\* timeout; the reconnect timeout is scheduled by nothing else, one at a
\* time, by one connection ending; and that timeout sends one probe.
C22_OneTeardown ==
    [][/\ \A s \in Slots :
            (WsCloseEvent(s) \/ WsErrorEvent(s))
               => /\ sockets'[s] = "closed"
                  /\ reconnectTimer' = reconnectTimer + 1
                  /\ health' = health
       /\ reconnectTimer' > reconnectTimer
            => /\ reconnectTimer' = reconnectTimer + 1
               /\ Cardinality({s \in Slots : sockets[s] # "closed"
                                               /\ sockets'[s] = "closed"}) = 1
       /\ ReconnectTimerFires
            => (health' = health + 1 /\ reconnectTimer' = reconnectTimer - 1)]_vars

\* C22 witness: a connection that was being set up has failed (error, then
\* close): it is closed, one reconnect timeout is pending and no probe.
C22_Witness ==
    /\ mounted /\ logs = <<>> /\ ws # 0 /\ sockets[ws] = "closed"
    /\ reconnectTimer = 1 /\ health = 0 /\ healthCheckTimer = 0

\* C26: a failed probe, a stream error and a stream close leave the
\* component's state (error, log, job) and the requests in flight alone;
\* the failed probe adds one retry timeout and nothing else, the end of a
\* stream one reconnect timeout and nothing else.
C26_ConnectivitySwallowed ==
    [][/\ ProbeFail
            => /\ UNCHANGED <<reactVars, posts, ws, sockets, reconnectTimer>>
               /\ healthCheckTimer' = healthCheckTimer + 1
       /\ StreamEnds
            => /\ UNCHANGED <<reactVars, posts, ws, healthCheckTimer, health>>
               /\ reconnectTimer' = reconnectTimer + 1]_vars

\* C26 witness: the stream of a running job was lost and the probe after
\* it failed; no error is on display and the retry is pending.
C26_Witness ==
    /\ mounted /\ error = Null /\ isProcessing /\ epFails = 1 /\ healthCheckTimer = 1
    /\ logs # <<>> /\ logs[Len(logs)] \in Lines

\* C28: no event of the monitor other than a line changes the processing
\* flag or the stage index; the flag is cleared only by a line with a
\* success or error marker or by a failed submission; and while it is set
\* a start sends nothing.
C28_ConnectivityKeepsJob ==
    [][/\ ConnectivityEvent => UNCHANGED <<isProcessing, activeStep>>
       /\ (isProcessing /\ ~isProcessing')
            => \/ SubmissionFails
               \/ \E s \in Slots, msg \in Lines :
                     /\ Matching(msg) \cap {5, 6} # {}
                     /\ WsMessageEvent(s, msg)
       /\ (isProcessing /\ StartJob) => (posts' = posts /\ isProcessing')]_vars

\* C28 witness: the job is outstanding at stage 1 on the stream of a
\* reconnect, the line of stage 1 having arrived on the stream before it.
C28_Witness ==
    /\ logs = << <<"Transcription started">>, <<"--- Connected to Backend ---">> >>
    /\ isProcessing /\ activeStep = 1 /\ Streaming

\* C29: the open event of a stream appends the one marker entry to the
\* log and sets the error to null whatever it was; no other event of the
\* monitor changes the error.
C29_OpenClearsError ==
    [][/\ \A s \in Slots :
            (mounted /\ WsOpenEvent(s))
               => /\ logs' = Append(logs, <<"--- Connected to Backend ---">>)
                  /\ error' = Null
       /\ (ConnectivityEvent \/ LineArrives) /\ error' # error
            => \E s \in Slots : WsOpenEvent(s)]_vars

\* C29 witness: the stream has opened after a failed submission whose
\* message was on display, and no error is shown now.
C29_Witness ==
    /\ logs = << <<"ERROR: ", "missing url">>, <<"--- Connected to Backend ---">> >>
    /\ error = Null /\ Streaming /\ ~isProcessing

\* C23 (the claim as stated; refuted): when a line with a marker arrives
\* for an outstanding job, a success marker gives step 5 and outcome
\* Success, and an error marker gives outcome Failure and leaves the step.
C23_MarkerEndsJob ==
    [][\A s \in Slots, msg \in Lines \cup MarkedLines :
          (isProcessing /\ WsMessageEvent(s, msg))
             => /\ 5 \in Matching(msg)
                     => (~isProcessing' /\ activeStep' = COMPLETE
                         /\ JobOutcome' = "Success")
                /\ 6 \in Matching(msg)
                     => (~isProcessing' /\ JobOutcome' = "Failure"
                         /\ activeStep' = activeStep)]_vars

\* C23 (amended): a success marker gives step 5 and outcome Success; an
\* error marker in a line with no success marker gives outcome Failure,
\* and the step is left unless the line also carries a stage keyword,
\* whose stage it then takes.  Either way the job stops being outstanding.
C23_MarkerEndsJobPerLine ==
    [][\A s \in Slots, msg \in Lines \cup MarkedLines :
          (isProcessing /\ WsMessageEvent(s, msg))
             => LET m == Matching(msg)
                    stages == m \cap (0..4)
                IN  /\ 5 \in m
                         => (~isProcessing' /\ activeStep' = COMPLETE
                             /\ JobOutcome' = "Success")
                    /\ (6 \in m /\ 5 \notin m)
                         => /\ ~isProcessing'
                            /\ JobOutcome' = "Failure"
                            /\ activeStep' = IF stages = {} THEN activeStep
                                              ELSE Greatest(stages)]_vars

\* C23 witness: the job ended in failure on a line that carries an error
\* marker and the keyword of stage 1, after the line of stage 4.
C23_Witness ==
    /\ logs = << <<"Compositing", "Curating">>,
                 <<"Loading cached transcript", "No clips found">> >>
    /\ ~isProcessing /\ activeStep = 1

\* The entries of a log that are lines of the stream, in their order.
StreamLines(l) == SelectSeq(l, LAMBDA e : e \in Lines)

\* C24: the lines of the stream in the log are those received since the
\* last accepted start, in arrival order: an accepted start empties them,
\* the arrival of a line appends that line at the end of the log, with a
\* change of step or flag only if the line matches an if, and every other
\* step (the answer to the POST included) leaves them as they are.
C24_ArrivalOrder ==
    [][/\ (StartJob /\ ~isProcessing) => StreamLines(logs') = <<>>
       /\ \A s \in Slots, msg \in Lines :
            (mounted /\ WsMessageEvent(s, msg))
               => /\ logs' = Append(logs, msg)
                  /\ StreamLines(logs') = Append(StreamLines(logs), msg)
                  /\ (activeStep' # activeStep \/ isProcessing' # isProcessing)
                        => Matching(msg) # {}
       /\ ~(StartJob /\ ~isProcessing) /\ ~LineArrives
            => StreamLines(logs') = StreamLines(logs)]_vars

\* C24 witness: a line arrived while the POST was awaiting its answer, and
\* the entry written after the answer follows it in the log.
C24_Witness ==
    /\ logs = << <<"Initiating download">>, <<"--- Sending Job (", "viral", ") ---">> >>
    /\ isProcessing /\ posts = <<>>

\* a is a prefix of b
IsPrefix(a, b) == Len(a) <= Len(b) /\ SubSeq(b, 1, Len(a)) = a

\* C25: an accepted start leaves the log empty, and every other step
\* leaves the log it found as a prefix of the log it leaves.
C25_AppendOnly ==
    [][IF StartJob /\ ~isProcessing
       THEN logs' = <<>>
       ELSE IsPrefix(logs, logs')]_vars

\* C25 witness: the log has grown by the entry of an answered POST and
\* then by the marker of a stream that opened.
C25_Witness ==
    /\ logs = << <<"--- Sending Job (", "story", ") ---">>, <<"--- Connected to Backend ---">> >>
    /\ isProcessing

\* C30: at most one child process is ever started in a run, by the ready
\* handler and by nothing else; while the app is ready the handle points
\* at it; activate and the closing of a window leave the child, the handle
\* and the counts of spawn and kill alone; once will-quit has been handled
\* the handle is null, no child is left running and every child started
\* has been sent kill; and will-quit with a null handle changes nothing.
C30_OneBackend ==
    /\ [](Cardinality({p \in 1..MaxProcs : procs[p] # "none"}) <= 1 /\ spawns <= 1)
    /\ [](appState = "ready"
            => (spawns = 1 /\ kills = 0 /\ pythonProcess # 0
                /\ procs[pythonProcess] \in {"running", "exited"}))
    /\ [](appState = "quit"
            => (pythonProcess = 0 /\ kills = spawns
                /\ \A p \in 1..MaxProcs : procs[p] # "running"))
    /\ [][/\ (Activate \/ WindowClosed)
                => UNCHANGED <<pythonProcess, procs, spawns, kills>>
          /\ spawns' # spawns => AppReady
          /\ kills' # kills => WillQuit
          /\ (WillQuit /\ pythonProcess = 0)
                => UNCHANGED <<pythonProcess, procs, console, spawns, kills>>]_vars

\* C30 witness: on macOS the app has quit after its last window had been
\* closed; the one child was sent kill and the handle is null.
C30_Witness ==
    /\ appState = "quit" /\ platform = "darwin" /\ pythonProcess = 0
    /\ procs[1] = "killed" /\ spawns = 1 /\ kills = 1
    /\ console = <<"Starting Python Backend...", "Killing Python Backend...">>

====
